---- MODULE Spec2Model ----
(***************************************************************************)
(* A model of supahero1/ugrid (src/ugrid.hpp): the recyclable slot store   *)
(* UGridList<T>, and the uniform grid UGrid with its cell table, Insert,    *)
(* Optimize (compaction) and Tick (broad-phase scan).                       *)
(*                                                                          *)
(* Storage obtained from std::allocator::allocate is not initialised by    *)
(* the code.  A word of the cell table that the code never wrote holds an  *)
(* arbitrary value (drawn from GarbageVals); an arena slot never written   *)
(* holds Uninit.  A dereference of an index that names no initialised slot *)
(* of the storage it is applied to, and a store outside the storage, have  *)
(* no defined outcome: the call ends with status = "undefined".            *)
(***************************************************************************)
EXTENDS Integers, Sequences, FiniteSets

(***************************************************************************)
(* Bounds of the model.                                                    *)
(***************************************************************************)
\* largest arbitrary value found in a word the program did not initialise
MaxGarbage == 1
\* number of Insert calls on one grid
MaxEntities == 2
\* number of Tick calls on one grid
MaxTicks == 2
\* number of Get calls on the stand-alone list
MaxGets == 3

GarbageVals == 0 .. MaxGarbage

(***************************************************************************)
(* IEEE-754 binary32, non-negative finite values: zero is [m |-> 0, e |-> 0]*)
(* and any other value is m * 2^e with 2^23 <= m < 2^24.  Arithmetic is    *)
(* round-to-nearest, ties-to-even, as float arithmetic in the build is.    *)
(***************************************************************************)
TwoP12 == 2^12
TwoP22 == 2^22
TwoP23 == 2^23
TwoP24 == 2^24

F32Zero == [m |-> 0, e |-> 0]

RECURSIVE F32Norm(_, _)
F32Norm(m, e) == IF m >= TwoP23 THEN [m |-> m, e |-> e] ELSE F32Norm(2 * m, e - 1)

\* the float equal to the integer n, 0 <= n < 2^24 (every such integer is a float)
F32FromNat(n) == IF n = 0 THEN F32Zero ELSE F32Norm(n, 0)

\* round the 24-bit mantissa m, with remainder rem out of 2 * half, to nearest even
F32Round(m, rem, half, e) ==
    LET up == (rem > half) \/ (rem = half /\ m % 2 = 1)
        m1 == IF up THEN m + 1 ELSE m
    IN  IF m1 = TwoP24 THEN [m |-> TwoP23, e |-> e + 1] ELSE [m |-> m1, e |-> e]

\* long division: quotient and remainder of (q, r) * 2^steps by m, one bit a step
RECURSIVE F32DivBits(_, _, _, _)
F32DivBits(q, r, m, steps) ==
    IF steps = 0 THEN [q |-> q, r |-> r]
    ELSE LET r2 == 2 * r
             bit == IF r2 >= m THEN 1 ELSE 0
         IN  F32DivBits(2 * q + bit, r2 - bit * m, m, steps - 1)

\* 1.0f / f for f > 0
F32Inverse(f) ==
    IF f.m = TwoP23 THEN [m |-> TwoP23, e |-> (0 - 46) - f.e]
    ELSE LET d == F32DivBits(0, TwoP23, f.m, 24)
         IN  F32Round(d.q, 2 * d.r, f.m, (0 - 47) - f.e)

\* a * b
F32Mul(a, b) ==
    IF a.m = 0 \/ b.m = 0 THEN F32Zero
    ELSE LET ah == a.m \div TwoP12
             al == a.m % TwoP12
             bh == b.m \div TwoP12
             bl == b.m % TwoP12
             cross == ah * bl + al * bh
             low == (cross % TwoP12) * TwoP12 + al * bl
             lo == low % TwoP24
             hi == ah * bh + (cross \div TwoP12) + (low \div TwoP24)
         IN  IF hi >= TwoP23
             THEN F32Round(hi, lo, TwoP23, a.e + b.e + 24)
             ELSE F32Round(2 * hi + (lo \div TwoP23), lo % TwoP23, TwoP22, a.e + b.e + 23)

Min(a, b) == IF a <= b THEN a ELSE b
Max(a, b) == IF a >= b THEN a ELSE b

(***************************************************************************)
(* std::min(Limit, static_cast<uint32_t>(f)) for Limit < 2^23: the set of  *)
(* results.  The conversion truncates; for f >= 2^32 it is undefined in    *)
(* C++ (the value does not fit uint32_t) and the result is any value the   *)
(* std::min can return.                                                    *)
(***************************************************************************)
MinU32Cast(Limit, f) ==
    IF f.m = 0 THEN {0}
    ELSE IF f.e >= 9 THEN 0 .. Limit
    ELSE IF f.e >= 0 THEN {Limit}
    ELSE IF 0 - f.e >= 24 THEN {0}
    ELSE {Min(Limit, f.m \div (2 ^ (0 - f.e)))}

(***************************************************************************)
(* Signed values: the sign is carried by m.  The coordinates of the        *)
(* entities of this model are integers of magnitude below 2^24; each is a  *)
(* float, and so is every sum and difference the code forms of two of them.*)
(***************************************************************************)
F32FromInt(n) == IF n < 0 THEN [m |-> 0 - F32FromNat(0 - n).m, e |-> F32FromNat(0 - n).e]
                 ELSE F32FromNat(n)

\* the float n * 2^shift
F32Scaled(n, shift) == IF n = 0 THEN F32Zero
                       ELSE [m |-> F32FromInt(n).m, e |-> F32FromInt(n).e + shift]

\* std::max(f, 0.0f)
F32Max0(f) == IF f.m < 0 THEN F32Zero ELSE f

(***************************************************************************)
(* UGridList<T>.  A list is [Allocator, List, Used, Size, Free]; List is   *)
(* the storage, a function on 0 .. Size-1, or Nullptr.  Allocator stands   *)
(* for std::allocator<T>: it is the content of a slot it hands out.        *)
(***************************************************************************)
Uninit == 0 - 1

UninitReference == [Next |-> Uninit, Ref |-> Uninit]
UninitEntity == [Pos |-> [X |-> 0, Y |-> 0], Dim |-> [W |-> 0, H |-> 0], Copied |-> Uninit]

Nullptr == [i \in {} |-> Uninit]

Allocate(Allocator, n) == [i \in 0 .. n - 1 |-> Allocator]

\* a list whose first index would be 0: what the constructor must not build
UGridListFromZero(Allocator) ==
    [Allocator |-> Allocator, List |-> Nullptr, Used |-> 0, Size |-> 1, Free |-> 0]

\* the members' initialisers, and UGridList() = default
UGridList(Allocator) ==
    [Allocator |-> Allocator, List |-> Nullptr, Used |-> 1, Size |-> 1, Free |-> 0]

\* *reinterpret_cast<uint32_t*>(List + Index): the first word of a slot.  For
\* UGridReference it is Next.  (UGrid never releases a slot of Entities, whose
\* first word is the representation of Pos.X.)
FirstWord(slot) == IF "Next" \in DOMAIN slot THEN slot.Next ELSE slot.Pos.X

SetFirstWord(slot, w) == IF "Next" \in DOMAIN slot THEN [slot EXCEPT !.Next = w]
                         ELSE [slot EXCEPT !.Pos.X = w]

\* UGridList(const UGridList& Other)
CopyList(Other) ==
    LET NewSize == Min(Other.Size, Other.Used * 2)
    IN  [Allocator |-> Other.Allocator, List |-> Allocate(Other.Allocator, NewSize),
         Used |-> 1, Size |-> NewSize, Free |-> 0]

\* operator=(UGridList&& Other)
MoveAssign(This, Other) ==
    [Allocator |-> Other.Allocator, List |-> Other.List, Used |-> Other.Used,
     Size |-> Other.Size, Free |-> Other.Free]

SetEnd(L, End) == [L EXCEPT !.Used = End]

\* a growth step that doubles and forgets the + 1: what Get must not do
GrowDouble(L) ==
    LET NewSize == 2 * L.Size
    IN  [L EXCEPT !.Size = NewSize,
                  !.List = [i \in 0 .. NewSize - 1 |->
                              IF i < L.Used /\ i \in DOMAIN L.List THEN L.List[i]
                              ELSE L.Allocator]]

\* the growth step of Get: Size = (Size << 1) | 1, allocate, memcpy of Used slots
Grow(L) ==
    LET NewSize == 2 * L.Size + 1
    IN  [L EXCEPT !.Size = NewSize,
                  !.List = [i \in 0 .. NewSize - 1 |->
                              IF i < L.Used /\ i \in DOMAIN L.List THEN L.List[i]
                              ELSE L.Allocator]]

\* a Get that never looks at the free list: what LIFO reuse rules out
GetFresh(L) ==
    LET G == IF L.Used = L.Size THEN Grow(L) ELSE L
    IN  [list |-> [G EXCEPT !.Used = L.Used + 1], index |-> L.Used]

\* Get(): [list |-> the list afterwards, index |-> the index returned]
Get(L) ==
    IF L.Free # 0
    THEN [list |-> [L EXCEPT !.Free = FirstWord(L.List[L.Free])], index |-> L.Free]
    ELSE LET G == IF L.Used = L.Size THEN Grow(L) ELSE L
         IN  [list |-> [G EXCEPT !.Used = L.Used + 1], index |-> L.Used]

\* Ret(Index)
Ret(L, Index) ==
    [L EXCEPT !.List = [L.List EXCEPT ![Index] = SetFirstWord(@, L.Free)],
              !.Free = Index]

\* operator[](Index) used as the target of an assignment
Store(L, Index, value) == [L EXCEPT !.List = [L.List EXCEPT ![Index] = value]]

(***************************************************************************)
(* The state.  object says what the program constructed: a UGrid, on which *)
(* it calls Insert and Tick ("grid"); a UGridList<UGridReference> of its   *)
(* own, on which it calls Get, Ret and operator[] ("list"); or a UGrid     *)
(* whose PosToCell is exercised alone ("geometry").                        *)
(***************************************************************************)
VARIABLES
    object,
    \* UGrid's members; Cells is the cell table, a function on 0 .. CellsNum-1
    GridCells, CellDim, InverseCellDim, Cells, Entities, References,
    \* the count Tick printed last, and whether the last call stayed defined
    Collisions, status,
    \* the last call: its name, its argument and what it returned
    op, argEntity, argPos, retCell, ticks,
    \* what the last calls did inside: the positions, counted from Cells, of the
    \* cell heads the last call read or wrote; GlobalMaxEntityIndex at the start of
    \* each round of the scanning loop of the last Tick; and <<Reference.Ref,
    \* OtherReference.Ref>> at each ++Collisions of the last Tick
    touched, watermarks, counted,
    \* the stand-alone list, and its caller's books: the index Get returned last,
    \* the indices held, and the indices released and not handed out again (latest
    \* first)
    list, got, held, released

gridVars == <<GridCells, CellDim, InverseCellDim, Cells, Entities, References,
              Collisions, status, argEntity, ticks, touched, watermarks, counted>>
posVars == <<argPos, retCell>>
listVars == <<list, got, held, released>>
vars == <<object, op, gridVars, posVars, listVars>>

CellsNum == GridCells.X * GridCells.Y

NoEntity == [Pos |-> [X |-> 0, Y |-> 0], Dim |-> [W |-> 0, H |-> 0], Copied |-> 0]
NoCell == [X |-> 0, Y |-> 0]

(***************************************************************************)
(* The inputs.                                                             *)
(***************************************************************************)
Geometry(x, y, w, h) == [GridCells |-> [X |-> x, Y |-> y], CellDim |-> [W |-> w, H |-> h]]

\* the grids of Insert and Tick: one cell of 100x100, and 2x2 cells of 10x10
Geometries == {Geometry(1, 1, 100, 100), Geometry(2, 2, 10, 10)}

\* the grids PosToCell is exercised on
PosGeometries == {Geometry(2, 1, d, d) : d \in {1, 10, 41}}
                    \cup {Geometry(1, 2, d, d) : d \in {1, 10, 41}}

Ent(x, y, w, h) == [Pos |-> [X |-> x, Y |-> y], Dim |-> [W |-> w, H |-> h], Copied |-> 0]

\* the entities callers insert (Copied = 0, the member's initialiser)
EntityInputs == {Ent(10, 10, 5, 5), Ent(12, 12, 5, 5), Ent(5, 5, 1, 1),
                 Ent(15, 15, 1, 1), Ent(5, 10, 1, 5), Ent(5, 15, 1, 1)}

\* the coordinates PosToCell is called with: small integers, and the same times
\* 2^24 and 2^32
CoordInputs == {F32Scaled(n, s) : n \in {0 - 5, 0, 5, 9, 10, 15, 20, 41, 82, 100}, s \in {0, 24, 32}}

\* what the caller stores in a slot it holds
StoreInputs == {[Next |-> n, Ref |-> n] : n \in 0 .. 1}

(***************************************************************************)
(* UGrid(GridCells, CellDim): the members after construction.  The cell    *)
(* table is allocated and not written: garbage is what its words hold.     *)
(***************************************************************************)
Construct(kind, geometry, garbage) ==
    /\ object = kind
    /\ GridCells = geometry.GridCells
    /\ CellDim = geometry.CellDim
    /\ InverseCellDim = [W |-> F32Inverse(F32FromNat(geometry.CellDim.W)),
                         H |-> F32Inverse(F32FromNat(geometry.CellDim.H))]
    /\ Cells = garbage
    /\ Entities = UGridList(UninitEntity)
    /\ References = UGridList(UninitReference)
    /\ Collisions = 0
    /\ status = "ok"
    /\ argEntity = NoEntity
    /\ ticks = 0
    /\ touched = {}
    /\ watermarks = <<>>
    /\ counted = <<>>

NoGrid ==
    /\ GridCells = NoCell
    /\ CellDim = [W |-> 0, H |-> 0]
    /\ InverseCellDim = [W |-> F32Zero, H |-> F32Zero]
    /\ Cells = Nullptr
    /\ Entities = UGridList(UninitEntity)
    /\ References = UGridList(UninitReference)
    /\ Collisions = 0
    /\ status = "ok"
    /\ argEntity = NoEntity
    /\ ticks = 0
    /\ touched = {}
    /\ watermarks = <<>>
    /\ counted = <<>>

NoList ==
    /\ list = UGridList(UninitReference)
    /\ got = 0
    /\ held = {}
    /\ released = <<>>

NoQuery ==
    /\ argPos = [X |-> F32Zero, Y |-> F32Zero]
    /\ retCell = NoCell

TableGarbage(geometry) ==
    [0 .. geometry.GridCells.X * geometry.GridCells.Y - 1 -> GarbageVals]

Init ==
    /\ \E geometry \in Geometries : \E garbage \in TableGarbage(geometry) :
           Construct("grid", geometry, garbage)
    /\ op = "UGrid"
    /\ NoList
    /\ NoQuery

InitList ==
    /\ object = "list"
    /\ op = "UGridList"
    /\ NoGrid
    /\ NoList
    /\ NoQuery

\* a grid, and the point its PosToCell is about to be called with
InitPos ==
    /\ \E geometry \in PosGeometries : \E garbage \in TableGarbage(geometry) :
           Construct("geometry", geometry, garbage)
    /\ op = "UGrid"
    /\ NoList
    /\ argPos \in [X : CoordInputs, Y : CoordInputs]
    /\ retCell = NoCell

(***************************************************************************)
(* PosToCell(Pos): the set of cells it can return (one, unless a           *)
(* conversion is undefined).                                               *)
(***************************************************************************)
PosToCell(Pos) ==
    {[X |-> XCell, Y |-> YCell] :
        XCell \in MinU32Cast(GridCells.X - 1, F32Mul(F32Max0(Pos.X), InverseCellDim.W)),
        YCell \in MinU32Cast(GridCells.Y - 1, F32Mul(F32Max0(Pos.Y), InverseCellDim.H))}

PosToCellCall ==
    /\ object = "geometry"
    /\ op = "UGrid"
    /\ \E Cell \in PosToCell(argPos) : retCell' = Cell
    /\ op' = "PosToCell"
    /\ UNCHANGED <<object, gridVars, listVars, argPos>>

NextPos == PosToCellCall

SpecPos == InitPos /\ [][NextPos]_vars

\* an InsertCell that forgets the old head of the cell: what Insert must not do
InsertCellDropsChain(S, Address, EntityIndex) ==
    LET G == Get(S.References)
        Index == G.index
    IN  [Cells |-> [S.Cells EXCEPT ![Address] = Index],
         References |-> Store(G.list, Index, [Next |-> 0, Ref |-> EntityIndex])]

(***************************************************************************)
(* Insert.                                                                 *)
(***************************************************************************)
\* Insert(uint32_t* Cell, uint32_t EntityIndex) for Cell = Cells + Address,
\* on S = [Cells, References]
InsertCell(S, Address, EntityIndex) ==
    LET G == Get(S.References)
        Index == G.index
    IN  [Cells |-> [S.Cells EXCEPT ![Address] = Index],
         References |-> Store(G.list, Index,
                              [Next |-> S.Cells[Address], Ref |-> EntityIndex])]

\* the cell addresses X * GridCells.Y + Y the two loops of Insert visit, in order
RECURSIVE CellAddresses(_, _, _, _)
CellAddresses(X, Y, Start, End) ==
    IF X > End.X THEN <<>>
    ELSE IF Y > End.Y THEN CellAddresses(X + 1, Start.Y, Start, End)
    ELSE <<X * GridCells.Y + Y>> \o CellAddresses(X, Y + 1, Start, End)

RECURSIVE InsertCells(_, _, _)
InsertCells(S, Addresses, EntityIndex) ==
    IF Addresses = <<>> THEN S
    ELSE InsertCells(InsertCell(S, Head(Addresses), EntityIndex), Tail(Addresses),
                     EntityIndex)

\* the corners Insert hands to PosToCell
StartPos(Entity) == [X |-> F32FromInt(Entity.Pos.X - Entity.Dim.W),
                     Y |-> F32FromInt(Entity.Pos.Y - Entity.Dim.H)]
EndPos(Entity) == [X |-> F32FromInt(Entity.Pos.X + Entity.Dim.W),
                   Y |-> F32FromInt(Entity.Pos.Y + Entity.Dim.H)]

\* Insert(EntityType Entity)
Insert(Entity) ==
    /\ object = "grid"
    /\ status = "ok"
    /\ Entities.Used <= MaxEntities
    /\ LET G == Get(Entities)
           Index == G.index
       IN  \E Start \in PosToCell(StartPos(Entity)) : \E End \in PosToCell(EndPos(Entity)) :
               LET R == InsertCells([Cells |-> Cells, References |-> References],
                                    CellAddresses(Start.X, Start.Y, Start, End), Index)
               IN  /\ Entities' = Store(G.list, Index, Entity)
                   /\ Cells' = R.Cells
                   /\ References' = R.References
                   /\ touched' = {CellAddresses(Start.X, Start.Y, Start, End)[n] :
                                    n \in DOMAIN CellAddresses(Start.X, Start.Y, Start, End)}
    /\ argEntity' = Entity
    /\ op' = "Insert"
    /\ UNCHANGED <<object, GridCells, CellDim, InverseCellDim, Collisions, status, ticks,
                   watermarks, counted, posVars, listVars>>

(***************************************************************************)
(* Optimize.                                                               *)
(***************************************************************************)
\* CellsEnd - Cells
CellsEnd == CellsNum

\* *Cell for Cell = Cells + k.  Cells + CellsEnd is the word after the table: it is
\* no part of the table, and oob is the value found there
CellWord(cells, oob, k) == IF k \in DOMAIN cells THEN cells[k] ELSE oob

\* whether List[i] is a slot of the storage that was written
ReferenceReadable(List, i) ==
    i \in DOMAIN List /\ List[i].Next # Uninit /\ List[i].Ref # Uninit
EntityReadable(List, i) == i \in DOMAIN List /\ List[i].Copied # Uninit

\* the while loop of Optimize for cell k, from link i on.  S holds the old storage
\* (OldE, OldR), the new storage (NewE, NewR), CurrentEntity - HeadEntity (CurE),
\* CurrentReference - HeadReference (CurR) and the cell table
RECURSIVE OptimizeChain(_, _, _, _)
OptimizeChain(S, k, i, First) ==
    IF i = 0 THEN S
    ELSE IF ~ReferenceReadable(S.OldR, i) THEN [S EXCEPT !.ok = FALSE]
    ELSE IF ~EntityReadable(S.OldE, S.OldR[i].Ref) THEN [S EXCEPT !.ok = FALSE]
    ELSE LET Reference == S.OldR[i]
             next == Reference.Next
             Entity == S.OldE[Reference.Ref]
             fresh == Entity.Copied = 0
             Copied == IF fresh THEN S.CurE ELSE Entity.Copied
         IN  IF \/ fresh /\ S.CurE \notin DOMAIN S.NewE
                \/ First /\ k \notin DOMAIN S.Cells
                \/ S.CurR \notin DOMAIN S.NewR
             THEN [S EXCEPT !.ok = FALSE]
             ELSE OptimizeChain(
                    [S EXCEPT !.NewE = IF fresh THEN [@ EXCEPT ![S.CurE] = Entity] ELSE @,
                              !.OldE = [@ EXCEPT ![Reference.Ref].Copied = Copied],
                              !.CurE = IF fresh THEN @ + 1 ELSE @,
                              !.Cells = IF First THEN [@ EXCEPT ![k] = S.CurR] ELSE @,
                              !.NewR = [@ EXCEPT ![S.CurR] =
                                          [Next |-> IF next # 0 THEN S.CurR + 1 ELSE 0,
                                           Ref |-> Copied]],
                              !.CurR = @ + 1],
                    k, next, FALSE)

\* the for loop of Optimize, from cell k on: Cell <= CellsEnd
RECURSIVE OptimizeCells(_, _, _)
OptimizeCells(S, k, oob) ==
    IF ~S.ok \/ k > CellsEnd THEN S
    ELSE OptimizeCells(OptimizeChain([S EXCEPT !.Touched = @ \cup {k}], k,
                                     CellWord(S.Cells, oob, k), TRUE), k + 1, oob)

\* Optimize(): [ok, Cells, Entities, References] afterwards, and the positions of
\* the cell heads it read
Optimize(cells, oob) ==
    LET NewEntities == CopyList(Entities)
        NewReferences == CopyList(References)
        S == OptimizeCells([ok |-> TRUE, Touched |-> {}, Cells |-> cells,
                            OldE |-> Entities.List, OldR |-> References.List,
                            NewE |-> NewEntities.List, CurE |-> 1,
                            NewR |-> NewReferences.List, CurR |-> 1], 0, oob)
    IN  [ok |-> S.ok, Touched |-> S.Touched, Cells |-> S.Cells,
         Entities |-> MoveAssign(Entities, SetEnd([NewEntities EXCEPT !.List = S.NewE], S.CurE)),
         References |-> MoveAssign(References,
                                   SetEnd([NewReferences EXCEPT !.List = S.NewR], S.CurR))]

(***************************************************************************)
(* Tick.                                                                   *)
(***************************************************************************)
\* whether every link of the chain from i on is a written slot
RECURSIVE ChainReadable(_, _, _)
ChainReadable(List, i, fuel) ==
    \/ i = 0
    \/ /\ fuel > 0
       /\ ReferenceReadable(List, i)
       /\ ChainReadable(List, List[i].Next, fuel - 1)

\* the inner while loop of Tick from link j on, for the link Reference of the
\* outer loop: <<Reference.Ref, OtherReference.Ref>> for each ++Collisions
RECURSIVE CountChain(_, _, _, _)
CountChain(List, Reference, j, GlobalMaxEntityIndex) ==
    IF j = 0 THEN <<>>
    ELSE (IF List[j].Ref < GlobalMaxEntityIndex THEN <<>>
          ELSE <<<<Reference.Ref, List[j].Ref>>>>)
         \o CountChain(List, Reference, List[j].Next, GlobalMaxEntityIndex)

\* the outer while loop of Tick from link i on, S = [LocalMaxEntityIndex, Collisions,
\* Counted]
RECURSIVE TickChain(_, _, _, _)
TickChain(S, List, i, GlobalMaxEntityIndex) ==
    IF i = 0 THEN S
    ELSE LET Reference == List[i]
             LocalMax == Max(S.LocalMaxEntityIndex, Reference.Ref)
             Pairs == CountChain(List, Reference, Reference.Next, GlobalMaxEntityIndex)
         IN  IF Reference.Ref <= GlobalMaxEntityIndex
             THEN TickChain([S EXCEPT !.LocalMaxEntityIndex = LocalMax], List,
                            Reference.Next, GlobalMaxEntityIndex)
             ELSE TickChain([LocalMaxEntityIndex |-> LocalMax,
                             Collisions |-> S.Collisions + Len(Pairs),
                             Counted |-> S.Counted \o Pairs],
                            List, Reference.Next, GlobalMaxEntityIndex)

\* the for loop of Tick, from cell k on, S = [ok, GlobalMaxEntityIndex, Collisions]
\* and what the loop did: Touched, Watermarks, Counted
RECURSIVE TickCells(_, _, _, _, _)
TickCells(S, cells, List, k, oob) ==
    IF ~S.ok \/ k > CellsEnd THEN S
    ELSE LET i == CellWord(cells, oob, k)
             B == [S EXCEPT !.Touched = @ \cup {k},
                            !.Watermarks = Append(@, S.GlobalMaxEntityIndex)]
         IN  IF ~ChainReadable(List, i, Cardinality(DOMAIN List))
             THEN [B EXCEPT !.ok = FALSE]
             ELSE LET C == TickChain([LocalMaxEntityIndex |-> 0,
                                      Collisions |-> S.Collisions, Counted |-> S.Counted],
                                     List, i, S.GlobalMaxEntityIndex)
                  IN  TickCells([B EXCEPT !.GlobalMaxEntityIndex =
                                              Max(S.GlobalMaxEntityIndex, C.LocalMaxEntityIndex),
                                          !.Collisions = C.Collisions,
                                          !.Counted = C.Counted],
                                cells, List, k + 1, oob)

\* the scan of Tick, after Optimize
Scan(cells, List, oob) ==
    TickCells([ok |-> TRUE, GlobalMaxEntityIndex |-> 0, Collisions |-> 0,
               Touched |-> {}, Watermarks |-> <<>>, Counted |-> <<>>], cells, List, 0, oob)

\* Tick(); oobOptimize and oobScan are what the word after the table holds when
\* Optimize and the scan read it
Tick ==
    /\ object = "grid"
    /\ status = "ok"
    /\ ticks < MaxTicks
    /\ \E oobOptimize \in GarbageVals : \E oobScan \in GarbageVals :
          LET O == Optimize(Cells, oobOptimize)
              T == Scan(O.Cells, O.References.List, oobScan)
          IN  IF ~O.ok
              THEN /\ status' = "undefined"
                   /\ touched' = O.Touched
                   /\ UNCHANGED <<Cells, Entities, References, Collisions, watermarks,
                                  counted>>
              ELSE /\ Cells' = O.Cells
                   /\ Entities' = O.Entities
                   /\ References' = O.References
                   /\ touched' = O.Touched \cup T.Touched
                   /\ watermarks' = T.Watermarks
                   /\ counted' = T.Counted
                   /\ IF T.ok
                      THEN Collisions' = T.Collisions /\ status' = "ok"
                      ELSE status' = "undefined" /\ UNCHANGED Collisions
    /\ ticks' = ticks + 1
    /\ op' = "Tick"
    /\ UNCHANGED <<object, GridCells, CellDim, InverseCellDim, argEntity, posVars, listVars>>

Next == (\E Entity \in EntityInputs : Insert(Entity)) \/ Tick

Spec == Init /\ [][Next]_vars

(***************************************************************************)
(* The stand-alone UGridList<UGridReference> and its caller.               *)
(***************************************************************************)
\* seq without its first occurrence of x
RECURSIVE RemoveFirst(_, _)
RemoveFirst(seq, x) ==
    IF seq = <<>> THEN <<>>
    ELSE IF Head(seq) = x THEN Tail(seq)
    ELSE <<Head(seq)>> \o RemoveFirst(Tail(seq), x)

\* Index = list.Get()
GetCall ==
    /\ object = "list"
    /\ list.Free # 0 \/ list.Used <= MaxGets
    /\ LET G == Get(list)
       IN  /\ list' = G.list
           /\ got' = G.index
           /\ held' = held \cup {G.index}
           /\ released' = RemoveFirst(released, G.index)
    /\ op' = "Get"
    /\ UNCHANGED <<object, gridVars, posVars>>

\* list.Ret(Index) of an index the caller holds
RetCall(Index) ==
    /\ object = "list"
    /\ Index \in held
    /\ list' = Ret(list, Index)
    /\ held' = held \ {Index}
    /\ released' = <<Index>> \o released
    /\ op' = "Ret"
    /\ UNCHANGED <<object, gridVars, posVars, got>>

\* list[Index] = value for an index the caller holds
StoreCall(Index, value) ==
    /\ object = "list"
    /\ Index \in held
    /\ list' = Store(list, Index, value)
    /\ op' = "Store"
    /\ UNCHANGED <<object, gridVars, posVars, got, held, released>>

NextList ==
    \/ GetCall
    \/ \E Index \in held : RetCall(Index)
    \/ \E Index \in held : \E value \in StoreInputs : StoreCall(Index, value)

\* the callers that keep to the contract of Ret
SpecList == InitList /\ [][NextList]_vars

\* every caller: of a grid, or of a list
NextAll == Next \/ NextList

SpecAll == (Init \/ InitList) /\ [][NextAll]_vars

(***************************************************************************)
(* A caller that also compacts its list the way Optimize compacts the      *)
(* arenas of the grid: a copy-constructed list receives the slots in use,  *)
(* SetEnd fixes its used-length, and it is move-assigned over the old one. *)
(***************************************************************************)
\* the elements of a set of indices, in ascending order
RECURSIVE Ascending(_)
Ascending(S) ==
    IF S = {} THEN <<>>
    ELSE LET m == CHOOSE x \in S : \A y \in S : x <= y
         IN  <<m>> \o Ascending(S \ {m})

\* UGridList New(list); New[1..n] = the held slots; New.SetEnd; list = std::move(New)
CompactCall ==
    /\ object = "list"
    /\ LET New == CopyList(list)
           live == Ascending(held)
           Copy == [i \in DOMAIN New.List |->
                      IF i \in DOMAIN live THEN list.List[live[i]] ELSE New.List[i]]
       IN  /\ list' = MoveAssign(list, SetEnd([New EXCEPT !.List = Copy], Len(live) + 1))
           /\ held' = 1 .. Len(live)
    /\ released' = <<>>
    /\ op' = "Compact"
    /\ UNCHANGED <<object, gridVars, posVars, got>>

NextCompact == NextList \/ CompactCall

SpecCompact == InitList /\ [][NextCompact]_vars

(***************************************************************************)
(* What the claims speak of.                                               *)
(***************************************************************************)
\* the links of the chain that starts at link i, in chain order, as far as they are
\* written slots of List (and at most fuel of them)
RECURSIVE ChainLinks(_, _, _)
ChainLinks(List, i, fuel) ==
    IF i = 0 \/ fuel = 0 \/ ~ReferenceReadable(List, i) THEN <<>>
    ELSE <<i>> \o ChainLinks(List, List[i].Next, fuel - 1)

Range(seq) == {seq[n] : n \in DOMAIN seq}

\* the chain of cell k of table cells over the link storage L
CellLinks(cells, L, k) == ChainLinks(L.List, cells[k], L.Size)

\* the entity indices the chain of cell k names, in chain order
CellEntities(cells, L, k) ==
    [n \in DOMAIN CellLinks(cells, L, k) |-> L.List[CellLinks(cells, L, k)[n]].Ref]

\* every chain of the table ends in 0 after written links only
ChainsEnd(cells, L) ==
    \A k \in DOMAIN cells : ChainReadable(L.List, cells[k], L.Size)

\* the chains consist of the links in use, each in one chain and once: what Insert
\* and Optimize build on a table whose unwritten words hold 0
ChainsAreLinksInUse(cells, L) ==
    /\ ChainsEnd(cells, L)
    /\ \A i \in 1 .. L.Used - 1 :
          Cardinality({<<k, n>> \in (DOMAIN cells) \X (1 .. L.Size) :
                          n \in DOMAIN CellLinks(cells, L, k)
                          /\ CellLinks(cells, L, k)[n] = i}) = 1

\* the entity indices reachable from the chains of the table
Reachable(cells, L) == UNION {Range(CellEntities(cells, L, k)) : k \in DOMAIN cells}

\* the unordered pairs of distinct entities with a link in at least one common cell
SharingPairs(cells, L) ==
    {pair \in SUBSET Reachable(cells, L) :
        /\ Cardinality(pair) = 2
        /\ \E k \in DOMAIN cells : pair \subseteq Range(CellEntities(cells, L, k))}

\* Pos and Dim of the entity in slot i
Payload(E, i) == [Pos |-> E.List[i].Pos, Dim |-> E.List[i].Dim]

\* a step of Tick, of Insert
TickStep == op' = "Tick" /\ ticks' = ticks + 1
InsertStep == op' = "Insert" /\ Entities' # Entities

(***************************************************************************)
(* C1.  The count Tick reports is the number of unordered pairs of         *)
(* distinct entities that have a link in at least one common cell,         *)
(* whatever the order of the Insert calls.  Stated here for the calls of   *)
(* Tick that stay defined, on chains that hold no stray value (a failure   *)
(* of this is a failure of the claim, and owes nothing to unwritten        *)
(* memory).                                                                *)
(***************************************************************************)
C1_CountIsSharingPairs ==
    [][(TickStep /\ ChainsAreLinksInUse(Cells, References) /\ status' = "ok")
          => Collisions' = Cardinality(SharingPairs(Cells', References'))]_vars

(***************************************************************************)
(* C2.  Optimize neither loses nor duplicates an entity: after it the      *)
(* entity storage holds, once each, the entities (by Pos and Dim) that     *)
(* were reachable from the cell chains before it, and each is reachable.   *)
(***************************************************************************)
C2_OptimizeKeepsEntities ==
    [][TickStep =>
          /\ status' = "ok"
          /\ Entities'.Used - 1 = Cardinality(Reachable(Cells, References))
          /\ Reachable(Cells', References') = 1 .. Entities'.Used - 1
          /\ \A i \in Reachable(Cells, References) :
                Cardinality({j \in 1 .. Entities'.Used - 1 :
                                Payload(Entities', j) = Payload(Entities, i)})
                = Cardinality({j \in Reachable(Cells, References) :
                                Payload(Entities, j) = Payload(Entities, i)})]_vars

(***************************************************************************)
(* C3.  After Optimize the entity indices follow the scan: walking the     *)
(* cells in table order and each chain from its head, the entities met     *)
(* for the first time are numbered 1, 2, ..., N in that order.             *)
(***************************************************************************)
\* the entities in the order the walk meets them first
RECURSIVE Discovery(_, _, _)
Discovery(cells, L, k) ==
    IF k \notin DOMAIN cells THEN <<>>
    ELSE LET later == Discovery(cells, L, k + 1)
             here == CellEntities(cells, L, k)
             RECURSIVE FirstOf(_, _)
             FirstOf(seq, seen) ==
                 IF seq = <<>> THEN <<>>
                 ELSE IF Head(seq) \in seen THEN FirstOf(Tail(seq), seen)
                 ELSE <<Head(seq)>> \o FirstOf(Tail(seq), seen \cup {Head(seq)})
         IN  FirstOf(here, {}) \o SelectSeq(later, LAMBDA r : r \notin Range(here))

C3_IndicesFollowScan ==
    op = "Tick" =>
        /\ status = "ok"
        /\ Discovery(Cells, References, 0) = [n \in 1 .. Entities.Used - 1 |-> n]

(***************************************************************************)
(* C5.  A Tick that follows a Tick with no Insert between reports the same *)
(* count and leaves every cell head, every link and every entity as the    *)
(* first left them.                                                        *)
(***************************************************************************)
C5_SecondTickChangesNothing ==
    [][(op = "Tick" /\ TickStep) =>
          /\ status' = "ok"
          /\ Collisions' = Collisions
          /\ Cells' = Cells
          /\ References'.Used = References.Used
          /\ \A i \in 1 .. References.Used - 1 : References'.List[i] = References.List[i]
          /\ Entities'.Used = Entities.Used
          /\ \A i \in 1 .. Entities.Used - 1 : Entities'.List[i] = Entities.List[i]]_vars

(***************************************************************************)
(* C4.  Insert(Entity) with Start = PosToCell(Pos - Dim) and               *)
(* End = PosToCell(Pos + Dim) gives every cell of the range exactly one    *)
(* new link, which names the new entity, heads the cell's chain and has    *)
(* the old head as Next; no other cell and no older link changes.          *)
(***************************************************************************)
\* the addresses of the cells (X, Y) with Start.X <= X <= End.X, Start.Y <= Y <= End.Y
CellsInRange(Start, End) ==
    {X * GridCells.Y + Y : X \in Start.X .. End.X, Y \in Start.Y .. End.Y}

SlotZeroUnwritten(L) == 0 \in DOMAIN L.List => L.List[0] = L.Allocator

C6_ZeroIsNoIndex ==
    /\ op = "Get" => got # 0
    /\ 0 \notin held
    /\ SlotZeroUnwritten(list)
    /\ SlotZeroUnwritten(Entities)
    /\ SlotZeroUnwritten(References)
    /\ \A i \in DOMAIN References.List : References.List[i].Ref # 0
    /\ op = "Insert" =>
          \A Start \in PosToCell(StartPos(argEntity)) :
          \A End \in PosToCell(EndPos(argEntity)) :
          \A k \in CellsInRange(Start, End) : Cells[k] # 0

\* Get has handed out a released index, and another release is pending
C6_Witness ==
    /\ op = "Get"
    /\ got \in 1 .. list.Used - 1
    /\ released # <<>>
    /\ list.Free = Head(released)

(***************************************************************************)
(* C7.  Reuse is last-in first-out: Get returns the index released last    *)
(* among those not handed out again, without a change of Used or Size;     *)
(* only when there is none does it return a fresh index, the used-length.  *)
(***************************************************************************)
C7_ReuseIsLIFO ==
    [][(op' = "Get" /\ list' # list) =>
          IF released # <<>>
          THEN got' = Head(released) /\ list'.Used = list.Used /\ list'.Size = list.Size
          ELSE got' = list.Used /\ list'.Used = list.Used + 1]_vars

\* two indices were released, the later one is handed out again, the earlier waits
C7_Witness ==
    /\ op = "Get"
    /\ got = 2
    /\ released = <<1>>
    /\ list.Used = 3
    /\ list.Free = 1

(***************************************************************************)
(* C8.  On a fresh grid of 1x1 cells of 100x100, Insert of A at (10,10)    *)
(* and of B at (12,12), both with half-extent (5,5), links both into cell  *)
(* (0,0), and the Tick that follows reports 1.                             *)
(***************************************************************************)
C8_TwoEntitiesOneCell ==
    [][(/\ TickStep
        /\ ticks = 0
        /\ GridCells = [X |-> 1, Y |-> 1]
        /\ CellDim = [W |-> 100, H |-> 100]
        /\ Entities.Used = 3
        /\ Entities.List[1] = Ent(10, 10, 5, 5)
        /\ Entities.List[2] = Ent(12, 12, 5, 5))
          => /\ {1, 2} \subseteq Range(CellEntities(Cells, References, 0))
             /\ status' = "ok"
             /\ Collisions' = 1]_vars

(***************************************************************************)
(* C9.  On a fresh grid, when no two inserted entities share a cell, each  *)
(* entity has exactly one link in each cell of its range and Tick reports  *)
(* 0.                                                                      *)
(***************************************************************************)
\* the cells Insert links Entity into
EntityCells(Entity) ==
    UNION {CellsInRange(Start, End) : Start \in PosToCell(StartPos(Entity)),
                                      End \in PosToCell(EndPos(Entity))}

C9_NoSharedCellNoCollision ==
    [][(/\ TickStep
        /\ ticks = 0
        /\ \A i \in 1 .. Entities.Used - 1 : \A j \in 1 .. Entities.Used - 1 :
              i # j => EntityCells(Entities.List[i]) \cap EntityCells(Entities.List[j]) = {})
          => /\ \A i \in 1 .. Entities.Used - 1 : \A k \in EntityCells(Entities.List[i]) :
                   Cardinality({l \in Range(CellLinks(Cells, References, k)) :
                                   References.List[l].Ref = i}) = 1
             /\ status' = "ok"
             /\ Collisions' = 0]_vars

(***************************************************************************)
(* C10.  On each axis PosToCell maps a negative coordinate to cell 0, a    *)
(* coordinate at or beyond CellCount x CellDim to cell CellCount - 1, and  *)
(* any other coordinate c to floor(c / CellDim).                           *)
(***************************************************************************)
\* the integer that the float f is, for an f of integer value below 2^24
F32Int(f) == IF f.m = 0 THEN 0 ELSE f.m \div (2 ^ (0 - f.e))

\* the cell the claim gives coordinate c (an integer, or at least 2^24)
AxisCell(c, CellCount, Dim) ==
    IF c.m <= 0 THEN 0
    ELSE IF c.e > 0 THEN CellCount - 1
    ELSE IF F32Int(c) >= CellCount * Dim THEN CellCount - 1
    ELSE F32Int(c) \div Dim

C10_PosToCellClamps ==
    op = "PosToCell" =>
        /\ retCell.X = AxisCell(argPos.X, GridCells.X, CellDim.W)
        /\ retCell.Y = AxisCell(argPos.Y, GridCells.Y, CellDim.H)

(***************************************************************************)
(* C11.  Get grows the storage only when the free list is empty and Used   *)
(* equals Size; the growth sets Size to 2 x Size + 1 (also from the even   *)
(* Size a compaction leaves), keeps every slot below Used as it was, and   *)
(* the index returned is the old Used.                                     *)
(***************************************************************************)
C11_GrowthOnlyWhenFull ==
    [][(op' = "Get" /\ list' # list) =>
          LET grows == list.Free = 0 /\ list.Used = list.Size
          IN  /\ list'.Size # list.Size <=> grows
              /\ grows =>
                    /\ list'.Size = 2 * list.Size + 1
                    /\ DOMAIN list'.List = 0 .. list'.Size - 1
                    /\ \A i \in 0 .. list.Used - 1 :
                          i \in DOMAIN list.List => list'.List[i] = list.List[i]
                    /\ got' = list.Used
                    /\ list'.Used = list.Used + 1
              /\ ~grows => list'.List = list.List]_vars

\* Get has grown a list of the even capacity 2 to 5, keeping what slot 1 held
C11_Witness ==
    /\ op = "Get"
    /\ got = 2
    /\ list.Size = 5
    /\ list.Used = 3
    /\ list.List[1] = [Next |-> 1, Ref |-> 1]

(***************************************************************************)
(* C12.  Whatever Get, Ret (of a held index), Insert and Tick are called,  *)
(* every call stays defined and leaves each list with 1 <= Used <= Size    *)
(* and a free list that ends at 0 and consists of distinct indices in      *)
(* 1 .. Used - 1 that Ret was given (for the caller's list: exactly the    *)
(* released ones, latest first); the lists Optimize installs have          *)
(* Size = min(old Size, 2 x old Used).                                     *)
(***************************************************************************)
\* the indices of the free list of L from index i on (at most fuel of them)
RECURSIVE FreeChain(_, _, _)
FreeChain(L, i, fuel) ==
    IF i = 0 \/ fuel = 0 \/ i \notin DOMAIN L.List THEN <<>>
    ELSE <<i>> \o FreeChain(L, FirstWord(L.List[i]), fuel - 1)

\* whether the free list of L from index i on reaches 0 within fuel steps
RECURSIVE FreeChainEnds(_, _, _)
FreeChainEnds(L, i, fuel) ==
    \/ i = 0
    \/ /\ fuel > 0
       /\ i \in DOMAIN L.List
       /\ FreeChainEnds(L, FirstWord(L.List[i]), fuel - 1)

ArenaInvariant(L) ==
    /\ 1 <= L.Used
    /\ L.Used <= L.Size
    /\ FreeChainEnds(L, L.Free, L.Size)
    /\ LET F == FreeChain(L, L.Free, L.Size)
       IN  /\ \A n \in DOMAIN F : F[n] \in 1 .. L.Used - 1
           /\ \A n \in DOMAIN F : \A m \in DOMAIN F : n # m => F[n] # F[m]

C12_ArenasStayWellFormed ==
    [][/\ status' = "ok"
       /\ ArenaInvariant(list')
       /\ ArenaInvariant(Entities')
       /\ ArenaInvariant(References')
       /\ FreeChain(list', list'.Free, list'.Size) = released'
       /\ TickStep =>
             /\ Entities'.Size = Min(Entities.Size, 2 * Entities.Used)
             /\ References'.Size = Min(References.Size, 2 * References.Used)]_vars

(***************************************************************************)
(* C13.  Right after the Optimize of a Tick, Entities.Used is the number   *)
(* of entities the chains reach plus 1, References.Used is the number of   *)
(* links of all chains plus 1, both free lists are empty, every slot       *)
(* 1 .. Used - 1 is in use, and the next Get would return Used.            *)
(***************************************************************************)
\* the number of links of the chains of cells k, k + 1, ...
RECURSIVE LinksFrom(_, _, _)
LinksFrom(cells, L, k) ==
    IF k \notin DOMAIN cells THEN 0
    ELSE Len(CellLinks(cells, L, k)) + LinksFrom(cells, L, k + 1)

\* the links in some chain of the table
LinksInChains(cells, L) == UNION {Range(CellLinks(cells, L, k)) : k \in DOMAIN cells}

C13_OptimizeLeavesNoSlack ==
    [][TickStep =>
          /\ status' = "ok"
          /\ Entities'.Used = Cardinality(Reachable(Cells', References')) + 1
          /\ References'.Used = LinksFrom(Cells', References', 0) + 1
          /\ Entities'.Free = 0
          /\ References'.Free = 0
          /\ Reachable(Cells', References') = 1 .. Entities'.Used - 1
          /\ LinksInChains(Cells', References') = 1 .. References'.Used - 1
          /\ \A i \in 1 .. Entities'.Used - 1 : EntityReadable(Entities'.List, i)
          /\ Get(Entities').index = Entities'.Used
          /\ Get(References').index = References'.Used
          /\ Get(Entities').list.Used = Entities'.Used + 1
          /\ Get(References').list.Used = References'.Used + 1]_vars

(***************************************************************************)
(* C14.  The Optimize of a Tick keeps every cell's entities and their      *)
(* order: walking a cell's chain gives the same sequence of Pos/Dim before *)
(* and after, an empty cell keeps head 0, and afterwards the chain of a    *)
(* cell lies at consecutive indices and its last link has Next = 0.        *)
(***************************************************************************)
\* Pos and Dim of the entities of the chain of cell k, in chain order
CellPayloads(cells, E, L, k) ==
    [n \in DOMAIN CellEntities(cells, L, k) |-> Payload(E, CellEntities(cells, L, k)[n])]

C14_OptimizeKeepsChains ==
    [][TickStep =>
          /\ status' = "ok"
          /\ \A k \in DOMAIN Cells :
                /\ CellPayloads(Cells', Entities', References', k)
                      = CellPayloads(Cells, Entities, References, k)
                /\ Cells[k] = 0 => Cells'[k] = 0
                /\ LET chain == CellLinks(Cells', References', k)
                   IN  /\ \A n \in DOMAIN chain : chain[n] = Cells'[k] + n - 1
                       /\ chain # <<>> => References'.List[chain[Len(chain)]].Next = 0]_vars

(***************************************************************************)
(* C15.  Between the calls of Insert and Tick, which all stay defined,     *)
(* every entity in Entities has Copied = 0: so it is at the start of each  *)
(* Optimize, the entities the previous Optimize copied included.           *)
(***************************************************************************)
C15_CopiedIsZeroBetweenPasses ==
    /\ status = "ok"
    /\ \A i \in 1 .. Entities.Used - 1 : Entities.List[i].Copied = 0

(***************************************************************************)
(* C16.  After any calls of Insert and Tick, which all stay defined, every *)
(* entity in Entities is named by a link of some cell's chain.             *)
(***************************************************************************)
C16_EveryEntityIsLinked ==
    /\ status = "ok"
    /\ 1 .. Entities.Used - 1 \subseteq Reachable(Cells, References)

(***************************************************************************)
(* C17.  Tick stays defined, and when its scan begins a cell,              *)
(* GlobalMaxEntityIndex is the largest entity index in the chains of the   *)
(* cells scanned before (0 if they are all empty), the entities with an    *)
(* index up to it are exactly the entities of those chains, and it is not  *)
(* below what it was at the cell before.                                   *)
(***************************************************************************)
\* the entities in the chains of the cells before cell k
EarlierEntities(cells, L, k) ==
    UNION {Range(CellEntities(cells, L, j)) : j \in {j \in DOMAIN cells : j < k}}

\* the largest element of a set of indices, 0 if there is none
SetMax(S) == IF S = {} THEN 0 ELSE CHOOSE x \in S : \A y \in S : y <= x

C17_WatermarkCoversEarlierCells ==
    op = "Tick" =>
        /\ status = "ok"
        /\ \A k \in DOMAIN Cells :
              /\ k + 1 \in DOMAIN watermarks
              /\ watermarks[k + 1] = SetMax(EarlierEntities(Cells, References, k))
              /\ {i \in 1 .. Entities.Used - 1 : i <= watermarks[k + 1]}
                    = EarlierEntities(Cells, References, k)
              /\ k > 0 => watermarks[k] <= watermarks[k + 1]

(***************************************************************************)
(* C18.  Tick stays defined and counts no unordered pair of entities       *)
(* twice: each ++Collisions is for two distinct entities that share a      *)
(* cell, no two of them are for the same pair, and so the count reported   *)
(* is at most the number of pairs that share a cell.                       *)
(***************************************************************************)
C18_NoPairCountedTwice ==
    op = "Tick" =>
        /\ status = "ok"
        /\ Collisions = Len(counted)
        /\ \A n \in DOMAIN counted :
              {counted[n][1], counted[n][2]} \in SharingPairs(Cells, References)
        /\ \A n \in DOMAIN counted : \A m \in DOMAIN counted :
              n # m => {counted[n][1], counted[n][2]} # {counted[m][1], counted[m][2]}
        /\ Collisions <= Cardinality(SharingPairs(Cells, References))

(***************************************************************************)
(* C19.  Every cell head that Optimize, the scan of Tick and Insert read   *)
(* or write is a word of the cell table: its position is in                *)
(* 0 .. GridCells.X x GridCells.Y - 1.                                     *)
(***************************************************************************)
C19_CellHeadsInsideTable ==
    touched \subseteq 0 .. GridCells.X * GridCells.Y - 1

(***************************************************************************)
(* C20.  After construction every cell head is 0; so a Tick with no        *)
(* Insert before it stays defined, follows no link and reports 0, and the  *)
(* first Insert into a cell stores a link whose Next is 0.                 *)
(***************************************************************************)
C20_TableStartsEmpty ==
    /\ op = "UGrid" => \A k \in DOMAIN Cells : Cells[k] = 0
    /\ (op = "Tick" /\ ticks = 1 /\ Entities.Used = 1) =>
          /\ status = "ok"
          /\ Collisions = 0
          /\ References.Used = 1
    /\ (op = "Insert" /\ ticks = 0 /\ Entities.Used = 2) =>
          \A k \in touched : References.List[Cells[k]].Next = 0

====
